---------------------------- MODULE Spec2Model ----------------------------
(***************************************************************************)
(* Trace-context propagation over a publish/subscribe bus: the three       *)
(* roles of src/src/main.rs (sensor, computing, motion), each run as its   *)
(* own process by main(), the zenoh paths /sensor_data and /action between *)
(* them, the spans they start and end, and the standard input of the two   *)
(* subscribe loops.                                                        *)
(*                                                                         *)
(* Spec is one run of the program: one process in the role its --action    *)
(* argument names, every other publisher being the environment.            *)
(* PipelineSpec is the three roles running together on one bus, left       *)
(* running (nothing is typed). FairSpec is one run of a subscriber role     *)
(* with the scheduling of its loop.                                        *)
(***************************************************************************)
EXTENDS Integers, Sequences, FiniteSets, TLC

VARIABLES
    pc,            \* pc[p]: the statement process p is at ("off": p was not started)
    spans,         \* every span started so far; a span's id is its index
    log,           \* every put on the bus, in order; a put's serial is its index
    change_stream, \* change_stream[p]: serials delivered to p's subscription, not yet taken
    sub,           \* sub[p]: "none", "open", "closed" (line 157/206), "dropped" (unwinding)
    cur,           \* cur[p]: the locals of the iteration in progress (message, req_header, cx)
    stdin,         \* stdin[p]: bytes typed to p and not yet read
    input,         \* input[p]: the one-byte buffer of lines 100 and 167
    events,        \* events[p]: the calls of main p has completed, in order
    flushed,       \* flushed[p]: the spans of p that were ended when p flushed
    nEnv,          \* puts made so far by publishers outside the three processes
    nTyped         \* bytes typed so far

vars == <<pc, spans, log, change_stream, sub, cur, stdin, input, events, flushed, nEnv, nTyped>>

\* ---------------------------------------------------------------- bounds

\* Puts by other publishers and bytes typed, in a run of one process.
MaxEnv == 2
MaxTyped == 2
\* Puts by other publishers in a run of the three processes together.
MaxForeign == 1
\* Puts by other publishers and bytes typed, in a run of one subscriber under
\* fair scheduling.
MaxFairEnv == 1
MaxFairTyped == 1

\* ------------------------------------------------------------- constants

\* b'q', the stop sentinel.
SentinelByte == 113
\* Some other byte ('x').
OtherByte == 120
\* rng.gen_range(50..150): the ends of the range.
SensorSleepLow == 50
SensorSleepHigh == 149
\* rng.gen_range(0..100): one value of the range.
ComputingSleepOut == 99
\* TraceContextPropagator: the version it writes, and the flag it keeps.
SupportedVersion == 0
MaxVersion == 254
TraceFlagSampled == 1

Procs == {"sensor", "computing", "motion"}
Subscribers == {"computing", "motion"}

\* The path a role subscribes to (lines 95 and 162).
SubPath(p) == IF p = "computing" THEN "/sensor_data" ELSE "/action"

\* ------------------------------------------------------ the Message codec

\* struct Message { sleep_time: u64, span_context: String }
Message(sleep_time, span_context) ==
    [sleep_time |-> sleep_time, span_context |-> span_context]

\* A JSON text is modelled by what a parser sees of it: whether it is an
\* object, and its members in order. A member's value is a number or a string;
\* a string is the sequence of its dash-separated parts, read as numbers.
JNum(k, n) == [key |-> k, tag |-> "num", num |-> n, str |-> <<>>]
JStr(k, s) == [key |-> k, tag |-> "str", num |-> 0, str |-> s]
JObject(members) == [object |-> TRUE, members |-> members]
JOther == [object |-> FALSE, members |-> <<>>]

\* serde_json::to_string(&message): the members in declaration order.
to_string(message) ==
    JObject(<<JNum("sleep_time", message.sleep_time),
              JStr("span_context", message.span_context)>>)

Members(text, k) == {i \in 1..Len(text.members) : text.members[i].key = k}

\* serde_json::from_str::<Message>(&value): an object with exactly one
\* sleep_time member that is a number and exactly one span_context member that
\* is a string; members of other names are ignored. Anything else is Err.
from_str(text) ==
    IF /\ text.object
       /\ Cardinality(Members(text, "sleep_time")) = 1
       /\ Cardinality(Members(text, "span_context")) = 1
       /\ \A i \in Members(text, "sleep_time") : text.members[i].tag = "num"
       /\ \A i \in Members(text, "span_context") : text.members[i].tag = "str"
    THEN [ok |-> TRUE,
          message |-> Message(
              text.members[CHOOSE i \in Members(text, "sleep_time") : TRUE].num,
              text.members[CHOOSE i \in Members(text, "span_context") : TRUE].str)]
    ELSE [ok |-> FALSE, message |-> Message(0, <<>>)]

\* zenoh::Value as the loops see it: change.value is None (a Delete), or
\* Some(StringUtf8(text)), or Some of another encoding.
ValueUtf8(text) == [tag |-> "StringUtf8", text |-> text]
ValueRaw == [tag |-> "Raw", text |-> JOther]
ValueNone == [tag |-> "None", text |-> JOther]

\* ------------------------------------------------ the trace-context codec

\* A span context: trace id, span id, trace flags. Id 0 is the invalid id.
SpanContext(trace, span, flags) == [trace |-> trace, span |-> span, flags |-> flags]
EmptyContext == SpanContext(0, 0, 0)
IsValid(sc) == sc.trace # 0 /\ sc.span # 0

\* HashMap<String, String>: a function on the keys present.
EmptyMap == [k \in {} |-> <<>>]
HasKey(map, k) == k \in DOMAIN map
insert(map, k, v) == [x \in DOMAIN map \cup {k} |-> IF x = k THEN v ELSE map[x]]

\* A traceparent without its flags part.
TraceparentNoFlags(sc) == <<SupportedVersion, sc.trace, sc.span>>

\* The traceparent value of a span context: version-traceid-spanid-flags.
Traceparent(sc) == <<SupportedVersion, sc.trace, sc.span, sc.flags % 2>>

\* propagator.inject_context(&cx, &mut carrier): writes traceparent and
\* tracestate when the context's span is valid, and nothing otherwise.
inject_context(sc, carrier) ==
    IF IsValid(sc)
    THEN insert(insert(carrier, "traceparent", Traceparent(sc)), "tracestate", <<>>)
    ELSE carrier

\* An extract that reads the span id where the trace id is and the reverse.
extract_swapped(carrier) ==
    IF ~HasKey(carrier, "traceparent") THEN EmptyContext
    ELSE LET parts == carrier["traceparent"] IN
         IF Len(parts) < 4 THEN EmptyContext
         ELSE IF parts[1] > MaxVersion \/ (parts[1] = 0 /\ Len(parts) # 4) THEN EmptyContext
         ELSE IF parts[1] = 0 /\ parts[4] > 2 THEN EmptyContext
         ELSE LET sc == SpanContext(parts[3], parts[2], parts[4] % 2) IN
              IF IsValid(sc) THEN sc ELSE EmptyContext

\* propagator.extract(&carrier): the remote span context of the traceparent
\* entry, or the empty context when the entry is absent or fails validation
\* (fewer than four parts, a version out of range, version 0 with more than
\* four parts, flags above 2 for version 0, a zero trace or span id).
extract(carrier) ==
    IF ~HasKey(carrier, "traceparent") THEN EmptyContext
    ELSE LET parts == carrier["traceparent"] IN
         IF Len(parts) < 4 THEN EmptyContext
         ELSE IF parts[1] > MaxVersion \/ (parts[1] = 0 /\ Len(parts) # 4) THEN EmptyContext
         ELSE IF parts[1] = 0 /\ parts[4] > 2 THEN EmptyContext
         ELSE LET sc == SpanContext(parts[2], parts[3], parts[4] % 2) IN
              IF IsValid(sc) THEN sc ELSE EmptyContext

\* ------------------------------------------------------------ the tracer

\* Trace ids and span ids are random in the code; here the n-th span started
\* gets span id n and, when it is a root, a trace id of its own.
NewSpanId == Len(spans) + 1
NewTraceId == 100 + Len(spans) + 1

\* A start that takes whatever parent it is given, valid or not.
start_unchecked(owner, parent, src) ==
    [trace |-> parent.trace, parent |-> parent.span, flags |-> parent.flags,
     owner |-> owner, ends |-> 0, src |-> src, slept |-> 0]

\* tracer.span_builder(..).with_parent_context(parent).start(&tracer): a child
\* of a valid remote parent (same trace, the parent's sampling decision), or a
\* root span (no parent, a new trace, sampled) when the parent is not valid.
start(owner, parent, src) ==
    IF IsValid(parent)
    THEN [trace |-> parent.trace, parent |-> parent.span, flags |-> parent.flags,
          owner |-> owner, ends |-> 0, src |-> src, slept |-> 0]
    ELSE [trace |-> NewTraceId, parent |-> 0, flags |-> TraceFlagSampled,
          owner |-> owner, ends |-> 0, src |-> src, slept |-> 0]

\* The span context of span number id.
span_context(sp, id) == SpanContext(sp[id].trace, id, sp[id].flags)

\* Dropping the last handle of a span ends it.
EndSpan(sp, id) == IF id = 0 THEN sp ELSE [sp EXCEPT ![id].ends = @ + 1]

\* task::sleep(Duration::from_millis(millis)) while span id is open: slept is the
\* time the span's owner has spent in the sleep of lines 135 and 197.
Sleep(sp, id, millis) == [sp EXCEPT ![id].slept = @ + millis]

IsOpen(id) == spans[id].ends = 0
SpansOf(p) == {i \in 1..Len(spans) : spans[i].owner = p}

\* --------------------------------------------------------------- the bus

\* What one iteration (or the sensor's single run) keeps in its locals.
NoLocals == [serial |-> 0, message |-> Message(0, <<>>), req_header |-> EmptyMap, cx |-> 0]

\* A put appends to the log and to the stream of every open subscription to
\* the path, in the order the puts are made.
Deliver(streams, path, serial) ==
    [q \in Procs |-> IF q \in Subscribers /\ sub[q] = "open" /\ SubPath(q) = path
                     THEN Append(streams[q], serial) ELSE streams[q]]

Put(path, value, by, cx, cause) ==
    /\ log' = Append(log, [path |-> path, value |-> value, by |-> by, cx |-> cx, cause |-> cause])
    /\ change_stream' = Deliver(change_stream, path, Len(log) + 1)

\* A stream that hands out the newest change first.
next_newest(stream) == stream[Len(stream)]

\* change_stream.next(): the oldest change not yet taken.
next(stream) == Head(stream)

\* A failed unwrap() panics: the process unwinds, which drops its locals (an
\* open span is ended, an open subscription is undeclared) and never returns
\* to main.
Panic(p) ==
    /\ pc' = [pc EXCEPT ![p] = "panicked"]
    /\ spans' = EndSpan(spans, cur[p].cx)
    /\ cur' = [cur EXCEPT ![p] = NoLocals]
    /\ sub' = [sub EXCEPT ![p] = IF @ = "open" THEN "dropped" ELSE @]

\* ------------------------------------------------------------------ main

\* The state when main() is entered by the processes started.
Started(running) ==
    /\ pc = [p \in Procs |-> IF p \in running THEN "init_tracer" ELSE "off"]
    /\ spans = <<>>
    /\ log = <<>>
    /\ change_stream = [p \in Procs |-> <<>>]
    /\ sub = [p \in Procs |-> "none"]
    /\ cur = [p \in Procs |-> NoLocals]
    /\ stdin = [p \in Procs |-> <<>>]
    /\ input = [p \in Procs |-> 0]
    /\ events = [p \in Procs |-> <<>>]
    /\ flushed = [p \in Procs |-> {}]
    /\ nEnv = 0
    /\ nTyped = 0

\* Lines 26 and 35-41: one process, in the role the --action argument names.
Init == \E action \in Procs : Started({action})

\* The three roles, each in a process of its own.
PipelineInit == Started(Procs)

\* A main that goes on to open the session whatever init_tracer returned.
InitTracerUnchecked(p) ==
    /\ pc[p] = "init_tracer"
    /\ \E ok \in BOOLEAN :
         /\ pc' = [pc EXCEPT ![p] = "zenoh_new"]
         /\ events' = [events EXCEPT ![p] = IF ok THEN Append(@, "init_tracer") ELSE @]
    /\ UNCHANGED <<spans, cur, sub, log, change_stream, stdin, input, flushed, nEnv, nTyped>>

\* Line 30: init_tracer(..).unwrap().
InitTracer(p) ==
    /\ pc[p] = "init_tracer"
    /\ \E ok \in BOOLEAN :
         IF ok THEN /\ pc' = [pc EXCEPT ![p] = "zenoh_new"]
                    /\ events' = [events EXCEPT ![p] = Append(@, "init_tracer")]
                    /\ UNCHANGED <<spans, cur, sub>>
         ELSE Panic(p) /\ UNCHANGED events
    /\ UNCHANGED <<log, change_stream, stdin, input, flushed, nEnv, nTyped>>

\* Lines 32-41: Zenoh::new(..).await.unwrap(), zenoh.workspace(None), and the
\* choice of the role's function.
ZenohNew(p) ==
    /\ pc[p] = "zenoh_new"
    /\ \E ok \in BOOLEAN :
         IF ok THEN /\ pc' = [pc EXCEPT ![p] = IF p = "sensor" THEN "sensor" ELSE "subscribe"]
                    /\ events' = [events EXCEPT ![p] = Append(@, "zenoh_new")]
                    /\ UNCHANGED <<spans, cur, sub>>
         ELSE Panic(p) /\ UNCHANGED events
    /\ UNCHANGED <<log, change_stream, stdin, input, flushed, nEnv, nTyped>>

\* A main that shuts the tracer provider down without flushing it.
ZenohCloseNoFlush(p) ==
    /\ pc[p] = "zenoh_close"
    /\ pc' = [pc EXCEPT ![p] = "shutdown"]
    /\ events' = [events EXCEPT ![p] = Append(@, "zenoh_close")]
    /\ UNCHANGED <<spans, cur, sub, log, change_stream, stdin, input, flushed, nEnv, nTyped>>

\* Line 43: zenoh.close().await.unwrap().
ZenohClose(p) ==
    /\ pc[p] = "zenoh_close"
    /\ \E ok \in BOOLEAN :
         IF ok THEN /\ pc' = [pc EXCEPT ![p] = "force_flush"]
                    /\ events' = [events EXCEPT ![p] = Append(@, "zenoh_close")]
                    /\ UNCHANGED <<spans, cur, sub>>
         ELSE Panic(p) /\ UNCHANGED events
    /\ UNCHANGED <<log, change_stream, stdin, input, flushed, nEnv, nTyped>>

\* Line 44: force_flush_tracer_provider() exports the spans ended so far.
ForceFlush(p) ==
    /\ pc[p] = "force_flush"
    /\ pc' = [pc EXCEPT ![p] = "shutdown"]
    /\ events' = [events EXCEPT ![p] = Append(@, "force_flush")]
    /\ flushed' = [flushed EXCEPT ![p] = {i \in SpansOf(p) : ~IsOpen(i)}]
    /\ UNCHANGED <<spans, log, change_stream, sub, cur, stdin, input, nEnv, nTyped>>

\* Line 45: shutdown_tracer_provider(); main returns.
Shutdown(p) ==
    /\ pc[p] = "shutdown"
    /\ pc' = [pc EXCEPT ![p] = "done"]
    /\ events' = [events EXCEPT ![p] = Append(@, "shutdown")]
    /\ UNCHANGED <<spans, log, change_stream, sub, cur, stdin, input, flushed, nEnv, nTyped>>

\* ---------------------------------------------------------------- sensor

\* Lines 55-68: start the root span "generate sensor data", make it the span
\* of cx, and inject cx into the empty map injector.
SensorStart ==
    /\ pc["sensor"] = "sensor"
    /\ LET span == start("sensor", EmptyContext, 0)
           id == NewSpanId
           sp == Append(spans, span)
       IN /\ spans' = sp
          /\ cur' = [cur EXCEPT !["sensor"] =
                        [serial |-> 0, message |-> Message(0, <<>>),
                         req_header |-> inject_context(span_context(sp, id), EmptyMap),
                         cx |-> id]]
    /\ pc' = [pc EXCEPT !["sensor"] = "sensor_sleep"]
    /\ UNCHANGED <<log, change_stream, sub, stdin, input, events, flushed, nEnv, nTyped>>

\* Lines 71-72: task::sleep(rng.gen_range(0..100)).
SensorSleep ==
    /\ pc["sensor"] = "sensor_sleep"
    /\ pc' = [pc EXCEPT !["sensor"] = "sensor_put"]
    /\ UNCHANGED <<spans, log, change_stream, sub, cur, stdin, input, events, flushed, nEnv, nTyped>>

\* A sensor that generates data in a loop: after the put it starts over.
SensorPutAgain ==
    /\ pc["sensor"] = "sensor_put"
    /\ \E sleep_time \in {SensorSleepLow, SensorSleepHigh}, ok \in BOOLEAN :
         IF HasKey(cur["sensor"].req_header, "traceparent") /\ ok
         THEN LET message == Message(sleep_time, cur["sensor"].req_header["traceparent"])
              IN /\ Put("/sensor_data", ValueUtf8(to_string(message)), "sensor", cur["sensor"].cx, 0)
                 /\ spans' = EndSpan(spans, cur["sensor"].cx)
                 /\ cur' = [cur EXCEPT !["sensor"] = NoLocals]
                 /\ pc' = [pc EXCEPT !["sensor"] = "sensor"]
                 /\ UNCHANGED sub
         ELSE Panic("sensor") /\ UNCHANGED <<log, change_stream>>
    /\ UNCHANGED <<stdin, input, events, flushed, nEnv, nTyped>>

\* Lines 74-91: build the message (injector["traceparent"] panics when the key
\* is absent), serialize it, put it to /sensor_data and unwrap the result;
\* returning drops cx, which ends the span.
SensorPut ==
    /\ pc["sensor"] = "sensor_put"
    /\ \E sleep_time \in {SensorSleepLow, SensorSleepHigh}, ok \in BOOLEAN :
         IF HasKey(cur["sensor"].req_header, "traceparent") /\ ok
         THEN LET message == Message(sleep_time, cur["sensor"].req_header["traceparent"])
              IN /\ Put("/sensor_data", ValueUtf8(to_string(message)), "sensor", cur["sensor"].cx, 0)
                 /\ spans' = EndSpan(spans, cur["sensor"].cx)
                 /\ cur' = [cur EXCEPT !["sensor"] = NoLocals]
                 /\ pc' = [pc EXCEPT !["sensor"] = "zenoh_close"]
                 /\ UNCHANGED sub
         ELSE Panic("sensor") /\ UNCHANGED <<log, change_stream>>
    /\ UNCHANGED <<stdin, input, events, flushed, nEnv, nTyped>>

\* ------------------------------------------------- computing and motion

\* Lines 94-97 and 161-164: workspace.subscribe(path).await.unwrap().
Subscribe(p) ==
    /\ pc[p] = "subscribe"
    /\ \E ok \in BOOLEAN :
         IF ok THEN /\ pc' = [pc EXCEPT ![p] = "select"]
                    /\ sub' = [sub EXCEPT ![p] = "open"]
                    /\ UNCHANGED <<spans, cur>>
         ELSE Panic(p)
    /\ UNCHANGED <<log, change_stream, stdin, input, events, flushed, nEnv, nTyped>>

\* A receiver that unwraps the text of the value: a value that is not
\* StringUtf8 makes the process panic like a missing one.
ReceivedStrict(change) ==
    IF change.value.tag # "StringUtf8"
    THEN [outcome |-> "panic", message |-> Message(0, <<>>), req_header |-> EmptyMap]
    ELSE LET r == from_str(change.value.text) IN
         IF ~r.ok
         THEN [outcome |-> "panic", message |-> Message(0, <<>>), req_header |-> EmptyMap]
         ELSE [outcome |-> "process", message |-> r.message,
               req_header |-> insert(EmptyMap, "traceparent", r.message.span_context)]

\* Lines 105-108 and 172-175: the header map of a received change. The result
\* says whether the change is skipped (a value that is not StringUtf8), makes
\* the process panic (no value, or a text that is not a Message), or is
\* processed, and then with which message and header.
Received(change) ==
    IF change.value.tag = "None"
    THEN [outcome |-> "panic", message |-> Message(0, <<>>), req_header |-> EmptyMap]
    ELSE IF change.value.tag # "StringUtf8"
    THEN [outcome |-> "skip", message |-> Message(0, <<>>), req_header |-> EmptyMap]
    ELSE LET r == from_str(change.value.text) IN
         IF ~r.ok
         THEN [outcome |-> "panic", message |-> Message(0, <<>>), req_header |-> EmptyMap]
         ELSE [outcome |-> "process", message |-> r.message,
               req_header |-> insert(EmptyMap, "traceparent", r.message.span_context)]

\* A read whose first pending byte is lost with the future that was reading it.
DropReadLoses(pending) == IF pending = <<>> THEN <<>> ELSE Tail(pending)

\* Lines 152 and 201: when the change branch of select! runs, the future of
\* stdin.read_exact(&mut input) is dropped. The Stdin handle of lines 99 and
\* 166 outlives it and keeps the bytes it has not handed over.
DropRead(pending) == pending

\* A computing that forgets line 132.
ComputingInjectNothing(sc, req_header) == req_header

\* Line 132: the header map after the new span's context is injected into it.
ComputingInject(sc, req_header) == inject_context(sc, req_header)

\* A computing that processes each distinct value once: a change whose value
\* it has already started a span for is taken and dropped.
ComputingChangeOnce ==
    /\ pc["computing"] = "select"
    /\ change_stream["computing"] # <<>>
    /\ LET serial == next(change_stream["computing"])
           got == Received(log[serial])
       IN /\ change_stream' = [change_stream EXCEPT !["computing"] = Tail(@)]
          /\ CASE got.outcome = "panic" -> Panic("computing")
               [] \/ got.outcome = "skip"
                  \/ \E i \in SpansOf("computing") : log[spans[i].src].value = log[serial].value
                  -> UNCHANGED <<pc, spans, cur, sub>>
               [] OTHER ->
                    LET parent_cx == extract(got.req_header)
                        span == start("computing", parent_cx, serial)
                        id == NewSpanId
                        sp == Append(spans, span)
                    IN /\ spans' = sp
                       /\ cur' = [cur EXCEPT !["computing"] =
                                     [serial |-> serial, message |-> got.message,
                                      req_header |-> ComputingInject(span_context(sp, id), got.req_header),
                                      cx |-> id]]
                       /\ pc' = [pc EXCEPT !["computing"] = "sleep"]
                       /\ UNCHANGED sub
    /\ stdin' = [stdin EXCEPT !["computing"] = DropRead(@)]
    /\ UNCHANGED <<log, input, events, flushed, nEnv, nTyped>>

\* Lines 103-133: the change branch of computing's select!, up to the sleep.
ComputingChange ==
    /\ pc["computing"] = "select"
    /\ change_stream["computing"] # <<>>
    /\ LET serial == next(change_stream["computing"])
           got == Received(log[serial])
       IN /\ change_stream' = [change_stream EXCEPT !["computing"] = Tail(@)]
          /\ CASE got.outcome = "panic" -> Panic("computing")
               [] got.outcome = "skip" -> UNCHANGED <<pc, spans, cur, sub>>
               [] OTHER ->
                    LET parent_cx == extract(got.req_header)
                        span == start("computing", parent_cx, serial)
                        id == NewSpanId
                        sp == Append(spans, span)
                    IN /\ spans' = sp
                       /\ cur' = [cur EXCEPT !["computing"] =
                                     [serial |-> serial, message |-> got.message,
                                      req_header |-> ComputingInject(span_context(sp, id), got.req_header),
                                      cx |-> id]]
                       /\ pc' = [pc EXCEPT !["computing"] = "sleep"]
                       /\ UNCHANGED sub
    /\ stdin' = [stdin EXCEPT !["computing"] = DropRead(@)]
    /\ UNCHANGED <<log, input, events, flushed, nEnv, nTyped>>

\* A computing whose span is dropped when the sleep is over, before the put.
ComputingSleepDrop ==
    /\ pc["computing"] = "sleep"
    /\ spans' = EndSpan(Sleep(spans, cur["computing"].cx, cur["computing"].message.sleep_time),
                        cur["computing"].cx)
    /\ pc' = [pc EXCEPT !["computing"] = "put"]
    /\ UNCHANGED <<log, change_stream, sub, cur, stdin, input, events, flushed, nEnv, nTyped>>

\* Line 135: task::sleep(message.sleep_time).
ComputingSleep ==
    /\ pc["computing"] = "sleep"
    /\ spans' = Sleep(spans, cur["computing"].cx, cur["computing"].message.sleep_time)
    /\ pc' = [pc EXCEPT !["computing"] = "put"]
    /\ UNCHANGED <<log, change_stream, sub, cur, stdin, input, events, flushed, nEnv, nTyped>>

\* Lines 137-149: build the outgoing message from req_header["traceparent"],
\* put it to /action and unwrap the result; the end of the block drops cx,
\* which ends the span.
ComputingPut ==
    /\ pc["computing"] = "put"
    /\ \E ok \in BOOLEAN :
         IF HasKey(cur["computing"].req_header, "traceparent") /\ ok
         THEN LET message == Message(ComputingSleepOut, cur["computing"].req_header["traceparent"])
              IN /\ Put("/action", ValueUtf8(to_string(message)), "computing",
                        cur["computing"].cx, cur["computing"].serial)
                 /\ spans' = EndSpan(spans, cur["computing"].cx)
                 /\ cur' = [cur EXCEPT !["computing"] = NoLocals]
                 /\ pc' = [pc EXCEPT !["computing"] = "select"]
                 /\ UNCHANGED sub
         ELSE Panic("computing") /\ UNCHANGED <<log, change_stream>>
    /\ UNCHANGED <<stdin, input, events, flushed, nEnv, nTyped>>

\* Lines 170-194: the change branch of motion's select!, up to the sleep.
MotionChange ==
    /\ pc["motion"] = "select"
    /\ change_stream["motion"] # <<>>
    /\ LET serial == next(change_stream["motion"])
           got == Received(log[serial])
       IN /\ change_stream' = [change_stream EXCEPT !["motion"] = Tail(@)]
          /\ CASE got.outcome = "panic" -> Panic("motion")
               [] got.outcome = "skip" -> UNCHANGED <<pc, spans, cur, sub>>
               [] OTHER ->
                    LET parent_cx == extract(got.req_header)
                        span == start("motion", parent_cx, serial)
                    IN /\ spans' = Append(spans, span)
                       /\ cur' = [cur EXCEPT !["motion"] =
                                     [serial |-> serial, message |-> got.message,
                                      req_header |-> got.req_header, cx |-> NewSpanId]]
                       /\ pc' = [pc EXCEPT !["motion"] = "sleep"]
                       /\ UNCHANGED sub
    /\ stdin' = [stdin EXCEPT !["motion"] = DropRead(@)]
    /\ UNCHANGED <<log, input, events, flushed, nEnv, nTyped>>

\* A motion that drops _span without sleeping.
MotionNoSleep ==
    /\ pc["motion"] = "sleep"
    /\ spans' = EndSpan(spans, cur["motion"].cx)
    /\ cur' = [cur EXCEPT !["motion"] = NoLocals]
    /\ pc' = [pc EXCEPT !["motion"] = "select"]
    /\ UNCHANGED <<log, change_stream, sub, stdin, input, events, flushed, nEnv, nTyped>>

\* Lines 197-198: task::sleep(message.sleep_time); the end of the block drops
\* _span, which ends the span.
MotionSleep ==
    /\ pc["motion"] = "sleep"
    /\ spans' = EndSpan(Sleep(spans, cur["motion"].cx, cur["motion"].message.sleep_time),
                        cur["motion"].cx)
    /\ cur' = [cur EXCEPT !["motion"] = NoLocals]
    /\ pc' = [pc EXCEPT !["motion"] = "select"]
    /\ UNCHANGED <<log, change_stream, sub, stdin, input, events, flushed, nEnv, nTyped>>

\* A loop that no byte stops.
AfterInputNone(byte) == "select"

\* A loop that any byte stops.
AfterInputAny(byte) == "close"

\* Lines 153 and 202: what the loop does after a byte was read into input.
AfterInput(byte) == IF byte = SentinelByte THEN "close" ELSE "select"

\* An input branch that is also taken while a message is being processed.
ReadInputAnyTime(p) ==
    /\ pc[p] \in {"select", "sleep", "put"}
    /\ stdin[p] # <<>>
    /\ input' = [input EXCEPT ![p] = Head(stdin[p])]
    /\ stdin' = [stdin EXCEPT ![p] = Tail(@)]
    /\ pc' = [pc EXCEPT ![p] = AfterInput(Head(stdin[p]))]
    /\ UNCHANGED <<spans, log, change_stream, sub, cur, events, flushed, nEnv, nTyped>>

\* Lines 152-154 and 201-203: the input branch of select!.
ReadInput(p) ==
    /\ pc[p] = "select"
    /\ stdin[p] # <<>>
    /\ input' = [input EXCEPT ![p] = Head(stdin[p])]
    /\ stdin' = [stdin EXCEPT ![p] = Tail(@)]
    /\ pc' = [pc EXCEPT ![p] = AfterInput(Head(stdin[p]))]
    /\ UNCHANGED <<spans, log, change_stream, sub, cur, events, flushed, nEnv, nTyped>>

\* Lines 157 and 206: change_stream.close().await.unwrap(); the role returns.
CloseStream(p) ==
    /\ pc[p] = "close"
    /\ \E ok \in BOOLEAN :
         IF ok THEN /\ pc' = [pc EXCEPT ![p] = "zenoh_close"]
                    /\ sub' = [sub EXCEPT ![p] = "closed"]
                    /\ events' = [events EXCEPT ![p] = Append(@, "close")]
                    /\ UNCHANGED <<spans, cur>>
         ELSE Panic(p) /\ UNCHANGED events
    /\ UNCHANGED <<log, change_stream, stdin, input, flushed, nEnv, nTyped>>

\* ------------------------------------------------------- the environment

\* Values other publishers put on the two paths: an envelope with a valid
\* context of a foreign trace, one with an empty context, one whose context
\* fails validation (a zero trace id), a text that is no Message, a value that
\* is not StringUtf8, and a Delete (no value).
EnvValues ==
    <<ValueUtf8(to_string(Message(7, <<0, 900, 901, 1>>))),
      ValueUtf8(to_string(Message(7, <<>>))),
      ValueUtf8(to_string(Message(7, <<0, 0, 901, 1>>))),
      ValueUtf8(JOther),
      ValueRaw,
      ValueNone>>

\* A put by another publisher. Puts made before the path's subscription is
\* declared reach nobody and are left out.
OtherPut(path, i, max) ==
    /\ nEnv < max
    /\ \E q \in Subscribers : SubPath(q) = path /\ sub[q] # "none"
    /\ nEnv' = nEnv + 1
    /\ Put(path, EnvValues[i], "env", 0, 0)
    /\ UNCHANGED <<pc, spans, sub, cur, stdin, input, events, flushed, nTyped>>

EnvPut(path, i) == OtherPut(path, i, MaxEnv)
ForeignPut(path, i) == OtherPut(path, i, MaxForeign)
FairPut(path, i) == OtherPut(path, i, MaxFairEnv)

\* A byte typed on the terminal of a process whose loop is running.
Typed(p, byte, max) ==
    /\ nTyped < max
    /\ sub[p] = "open"
    /\ nTyped' = nTyped + 1
    /\ stdin' = [stdin EXCEPT ![p] = Append(@, byte)]
    /\ UNCHANGED <<pc, spans, log, change_stream, sub, cur, input, events, flushed, nEnv>>

Type(p, byte) == Typed(p, byte, MaxTyped)
FairType(p, byte) == Typed(p, byte, MaxFairTyped)

Next ==
    \/ \E p \in Procs : InitTracer(p)
    \/ \E p \in Procs : ZenohNew(p)
    \/ SensorStart
    \/ SensorSleep
    \/ SensorPut
    \/ \E p \in Subscribers : Subscribe(p)
    \/ ComputingChange
    \/ ComputingSleep
    \/ ComputingPut
    \/ MotionChange
    \/ MotionSleep
    \/ \E p \in Subscribers : ReadInput(p)
    \/ \E p \in Subscribers : CloseStream(p)
    \/ \E p \in Procs : ZenohClose(p)
    \/ \E p \in Procs : ForceFlush(p)
    \/ \E p \in Procs : Shutdown(p)
    \/ \E path \in {"/sensor_data", "/action"}, i \in 1..Len(EnvValues) : EnvPut(path, i)
    \/ \E p \in Subscribers, byte \in {SentinelByte, OtherByte} : Type(p, byte)

Spec == Init /\ [][Next]_vars

PipelineNext ==
    \/ \E p \in Procs : InitTracer(p)
    \/ \E p \in Procs : ZenohNew(p)
    \/ SensorStart
    \/ SensorSleep
    \/ SensorPut
    \/ \E p \in Subscribers : Subscribe(p)
    \/ ComputingChange
    \/ ComputingSleep
    \/ ComputingPut
    \/ MotionChange
    \/ MotionSleep
    \/ ZenohClose("sensor")
    \/ ForceFlush("sensor")
    \/ Shutdown("sensor")
    \/ \E path \in {"/sensor_data", "/action"}, i \in 1..Len(EnvValues) : ForeignPut(path, i)

PipelineSpec == PipelineInit /\ [][PipelineNext]_vars

\* A step of a subscribe loop, or the close that follows it.
LoopStep ==
    \/ ComputingChange
    \/ ComputingSleep
    \/ ComputingPut
    \/ MotionChange
    \/ MotionSleep
    \/ \E p \in Subscribers : ReadInput(p)
    \/ \E p \in Subscribers : CloseStream(p)

\* The scheduling of a stage: while some step of its loop is ready, the
\* process takes a step.
Fairness == WF_vars(LoopStep)

\* One process in a subscriber role.
FairInit == \E action \in Subscribers : Started({action})

FairNext ==
    \/ \E p \in Subscribers : InitTracer(p)
    \/ \E p \in Subscribers : ZenohNew(p)
    \/ \E p \in Subscribers : Subscribe(p)
    \/ ComputingChange
    \/ ComputingSleep
    \/ ComputingPut
    \/ MotionChange
    \/ MotionSleep
    \/ \E p \in Subscribers : ReadInput(p)
    \/ \E p \in Subscribers : CloseStream(p)
    \/ \E p \in Subscribers : ZenohClose(p)
    \/ \E p \in Subscribers : ForceFlush(p)
    \/ \E p \in Subscribers : Shutdown(p)
    \/ \E path \in {"/sensor_data", "/action"}, i \in 1..Len(EnvValues) : FairPut(path, i)
    \/ \E p \in Subscribers, byte \in {SentinelByte, OtherByte} : FairType(p, byte)

FairSpec == FairInit /\ [][FairNext]_vars /\ Fairness

\* ------------------------------------------------------------ properties

\* The message a logged put carries, when its value is a text that decodes.
Decodes(serial) ==
    log[serial].value.tag = "StringUtf8" /\ from_str(log[serial].value.text).ok
Carried(serial) == from_str(log[serial].value.text).message
\* The context a receiver recovers from the message of a logged put.
Recovered(serial) == extract(insert(EmptyMap, "traceparent", Carried(serial).span_context))

PutsBy(p) == {n \in 1..Len(log) : log[n].by = p}
SpansOfTrace(t) == {i \in 1..Len(spans) : spans[i].trace = t}

\* The chains sensor span s -> computing span c -> motion span m: c was started
\* for the envelope sensor published under s, m for the envelope computing
\* published under c.
Chains ==
    {ch \in SpansOf("sensor") \X SpansOf("computing") \X SpansOf("motion") :
        /\ spans[ch[2]].src \in PutsBy("sensor")
        /\ log[spans[ch[2]].src].cx = ch[1]
        /\ spans[ch[3]].src \in PutsBy("computing")
        /\ log[spans[ch[3]].src].cx = ch[2]}

\* C1: when the sensor's envelope was processed by computing and computing's
\* envelope by motion, the trace of the sensor's span holds exactly three
\* spans, the computing span's parent is the sensor's span and the motion
\* span's parent is the computing span.
C1_LinkedTrace ==
    \A ch \in Chains :
        /\ spans[ch[1]].parent = 0
        /\ spans[ch[2]].trace = spans[ch[1]].trace
        /\ spans[ch[3]].trace = spans[ch[1]].trace
        /\ spans[ch[2]].parent = ch[1]
        /\ spans[ch[3]].parent = ch[2]
        /\ SpansOfTrace(spans[ch[1]].trace) = {ch[1], ch[2], ch[3]}

C1_Witness == \E ch \in Chains : \A k \in 1..3 : spans[ch[k]].ends = 1

\* C2: the envelope computing publishes carries the context of the span it
\* started for the inbound message, not the context the inbound message carried.
C2_OwnContext ==
    \A n \in PutsBy("computing") :
        /\ Decodes(n)
        /\ spans[log[n].cx].owner = "computing"
        /\ spans[log[n].cx].src = log[n].cause
        /\ Recovered(n) = span_context(spans, log[n].cx)
        /\ Carried(n).span_context # Carried(log[n].cause).span_context

C2_Witness ==
    \E n \in PutsBy("computing") : IsValid(Recovered(log[n].cause))

\* C3: every envelope the sensor or computing publishes carries a context that
\* is not empty and passes validation, whatever the inbound envelope carried.
C3_ValidContext ==
    \A n \in PutsBy("sensor") \cup PutsBy("computing") :
        /\ Decodes(n)
        /\ Carried(n).span_context # <<>>
        /\ IsValid(Recovered(n))

C3_Witness ==
    \E n \in PutsBy("computing") :
         Carried(log[n].cause).span_context # <<>> /\ ~IsValid(Recovered(log[n].cause))

\* The step in which p takes the oldest change of its stream.
Takes(p) ==
    /\ pc[p] = "select"
    /\ change_stream[p] # <<>>
    /\ change_stream'[p] = Tail(change_stream[p])
Taken(p) == Head(change_stream[p])

\* C4: a subscriber that takes a text that is no Message skips it: it keeps
\* looping with its subscription open, starts no span and publishes nothing.
C4_SkipsUndecodable ==
    [][\A p \in Subscribers :
         (/\ Takes(p)
          /\ log[Taken(p)].value.tag = "StringUtf8"
          /\ ~from_str(log[Taken(p)].value.text).ok)
         => /\ pc'[p] = "select"
            /\ sub'[p] = "open"
            /\ spans' = spans
            /\ log' = log]_vars

\* C5: a subscriber that takes a decodable envelope whose context is empty or
\* fails validation starts a root span for it (no parent, a trace of its own)
\* and goes on to the sleep with its subscription open; the sleep ends in the
\* next step of the iteration, and line 140 finds the traceparent entry.
C5_BadContextStartsRoot ==
    /\ [](pc["computing"] = "put" => HasKey(cur["computing"].req_header, "traceparent"))
    /\ [][\A p \in Subscribers :
            /\ (Takes(p) /\ Decodes(Taken(p)) /\ ~IsValid(Recovered(Taken(p))))
               => /\ pc'[p] = "sleep"
                  /\ sub'[p] = "open"
                  /\ Len(spans') = Len(spans) + 1
                  /\ spans'[Len(spans')].owner = p
                  /\ spans'[Len(spans')].src = Taken(p)
                  /\ spans'[Len(spans')].parent = 0
                  /\ spans'[Len(spans')].trace # 0
                  /\ spans'[Len(spans')].trace \notin {spans[i].trace : i \in 1..Len(spans)}
                  /\ spans'[Len(spans')].ends = 0
            /\ (pc[p] = "sleep" /\ pc'[p] # "sleep")
               => pc'[p] = (IF p = "computing" THEN "put" ELSE "select")]_vars

C5_Witness ==
    \E p \in Subscribers : \E i \in SpansOf(p) :
        /\ ~IsValid(Recovered(spans[i].src))
        /\ spans[i].parent = 0
        /\ spans[i].ends = 1
        /\ pc[p] = "select"

\* C6: a subscriber has at most one message in progress, and takes messages in
\* the order they were delivered (the order of their serials): an open span
\* is the span of the iteration in progress, a pending change has no span and
\* no put yet and was delivered after every change already taken, and spans
\* and puts follow the order of the changes they were made for.
C6_OneAtATimeInOrder ==
    \A p \in Subscribers :
        /\ \A i \in SpansOf(p) : IsOpen(i) => (i = cur[p].cx /\ pc[p] \in {"sleep", "put"})
        /\ \A k \in 1..Len(change_stream[p]) :
             /\ \A i \in SpansOf(p) : spans[i].src < change_stream[p][k]
             /\ \A n \in PutsBy(p) : log[n].cause < change_stream[p][k]
        /\ \A i, j \in SpansOf(p) : i < j => spans[i].src < spans[j].src
        /\ \A m, n \in PutsBy(p) : m < n => log[m].cause < log[n].cause

C6_Witness ==
    /\ pc["computing"] = "put"
    /\ change_stream["computing"] # <<>>
    /\ Decodes(Head(change_stream["computing"]))

\* C7: while computing is in the sleep or the put of an iteration no byte is
\* read and the iteration goes on (sleep, then put, then back to select! or a
\* panic of the put); the loop is left only from select!, when every span of
\* computing is ended and has its envelope on /action.
C7_StopBetweenIterations ==
    [][/\ pc["computing"] = "sleep" => pc'["computing"] \in {"sleep", "put"}
       /\ pc["computing"] = "put" => pc'["computing"] \in {"put", "select", "panicked"}
       /\ pc["computing"] \in {"sleep", "put"}
          => /\ input'["computing"] = input["computing"]
             /\ Len(stdin'["computing"]) >= Len(stdin["computing"])
       /\ (pc["computing"] = "put" /\ pc'["computing"] = "select")
          => /\ PutsBy("computing")' = PutsBy("computing") \cup {Len(log')}
             /\ log'[Len(log')].cx = cur["computing"].cx
             /\ spans'[cur["computing"].cx].ends = 1
       /\ (pc["computing"] # "close" /\ pc'["computing"] = "close")
          => /\ pc["computing"] = "select"
             /\ \A i \in SpansOf("computing") :
                  spans[i].ends = 1 /\ \E n \in PutsBy("computing") : log[n].cx = i]_vars

C7_Witness ==
    /\ pc["computing"] = "put"
    /\ stdin["computing"] # <<>>
    /\ Head(stdin["computing"]) = SentinelByte

\* C8: when 'q' is the next byte of computing's input while it waits with no
\* pending change, computing comes to close its subscription (or a failing
\* call ends the process); and once the subscription is closed a put to
\* /sensor_data reaches no stream, and computing starts no span and puts
\* nothing.
C8_StopWhenIdle ==
    /\ (/\ pc["computing"] = "select"
        /\ change_stream["computing"] = <<>>
        /\ stdin["computing"] # <<>>
        /\ Head(stdin["computing"]) = SentinelByte)
       ~> (sub["computing"] = "closed" \/ pc["computing"] = "panicked")
    /\ [][sub["computing"] = "closed"
          => /\ sub'["computing"] = "closed"
             /\ change_stream'["computing"] = change_stream["computing"]
             /\ SpansOf("computing")' = SpansOf("computing")
             /\ PutsBy("computing")' = PutsBy("computing")]_vars

C8_Witness ==
    /\ sub["computing"] = "closed"
    /\ \E n \in 1..Len(log) :
         /\ log[n].path = "/sensor_data"
         /\ Decodes(n)
         /\ \A k \in 1..Len(change_stream["computing"]) : change_stream["computing"][k] # n
         /\ \A i \in SpansOf("computing") : spans[i].src # n

\* The step in which p reads a byte.
Reads(p) ==
    /\ pc[p] = "select"
    /\ stdin[p] # <<>>
    /\ stdin'[p] = Tail(stdin[p])

\* C9: reading a byte other than 'q' changes nothing but the input buffer, and
\* the loop is left through the input branch only when the byte read is 'q'.
C9_OtherBytesIgnored ==
    [][\A p \in Subscribers :
         /\ (Reads(p) /\ Head(stdin[p]) # SentinelByte)
            => /\ pc'[p] = "select"
               /\ sub'[p] = "open"
               /\ UNCHANGED <<spans, log, change_stream, cur>>
         /\ (pc[p] = "select" /\ pc'[p] = "close")
            => (Reads(p) /\ Head(stdin[p]) = SentinelByte /\ input'[p] = SentinelByte)]_vars

C9_Witness ==
    \E p \in Subscribers : input[p] = OtherByte /\ pc[p] = "select" /\ sub[p] = "open"

\* The calls of a run that ends normally, in order.
Teardown(p) ==
    IF p = "sensor"
    THEN <<"init_tracer", "zenoh_new", "zenoh_close", "force_flush", "shutdown">>
    ELSE <<"init_tracer", "zenoh_new", "close", "zenoh_close", "force_flush", "shutdown">>

\* C10: the teardown calls happen in the order close of the subscription,
\* close of the session, flush, shutdown, each once; when main returns all of
\* them have happened; and every span of the process is ended when it flushes.
C10_TeardownOrder ==
    \A p \in Procs :
        /\ Len(events[p]) <= Len(Teardown(p))
        /\ events[p] = SubSeq(Teardown(p), 1, Len(events[p]))
        /\ pc[p] = "done" => events[p] = Teardown(p)
        /\ (p \in Subscribers /\ pc[p] \in {"zenoh_close", "force_flush", "shutdown", "done"})
           => sub[p] = "closed"
        /\ pc[p] \in {"shutdown", "done"}
           => (flushed[p] = SpansOf(p) /\ \A i \in SpansOf(p) : spans[i].ends = 1)

C10_Witness ==
    \E p \in Subscribers : pc[p] = "done" /\ SpansOf(p) # {}

\* C11: the sensor's span is ended when the put has completed, whether it
\* succeeded (main returns) or failed (no put of the sensor is on the bus and
\* the process has ended), and it is then among the spans the process flushed.
C11_ClosedAndFlushed ==
    \A i \in SpansOf("sensor") :
        (\/ pc["sensor"] = "done"
         \/ (pc["sensor"] = "panicked" /\ PutsBy("sensor") = {}))
        => (spans[i].ends = 1 /\ i \in flushed["sensor"])

\* init_tracer has returned Ok in process p.
TracerInstalled(p) == events[p] # <<>> /\ Head(events[p]) = "init_tracer"

\* C12: while init_tracer has not succeeded, the process has opened no
\* session, declared no subscription, started no span and put nothing; once
\* init_tracer has failed the process has stopped, and stays so.
C12_NoTracerNoRun ==
    \A p \in Procs :
        ~TracerInstalled(p) =>
            /\ pc[p] \in {"off", "init_tracer", "panicked"}
            /\ events[p] = <<>>
            /\ sub[p] = "none"
            /\ SpansOf(p) = {}
            /\ PutsBy(p) = {}

\* init_tracer has failed in a process, which has panicked at line 30.
C12_Witness ==
    \E p \in Procs : pc[p] = "panicked" /\ ~TracerInstalled(p)

\* The statements of the sensor process, in program order.
SensorPath ==
    <<"init_tracer", "zenoh_new", "sensor", "sensor_sleep", "sensor_put",
      "zenoh_close", "force_flush", "shutdown", "done">>

\* Some statement of the sensor process can run.
SensorStep ==
    \/ InitTracer("sensor") \/ ZenohNew("sensor")
    \/ SensorStart \/ SensorSleep \/ SensorPut
    \/ ZenohClose("sensor") \/ ForceFlush("sensor") \/ Shutdown("sensor")

\* C13: the sensor process ends on its own: each of its statements can run
\* without any input and moves it one statement further (or ends it by a
\* panic), so it never loops. It never subscribes or reads stdin, it starts at
\* most one span and puts at most once, and when main returns it has started
\* exactly one span, a root, and put exactly one value, to /sensor_data.
C13_SensorOneShot ==
    /\ [](/\ sub["sensor"] = "none"
          /\ change_stream["sensor"] = <<>>
          /\ input["sensor"] = 0
          /\ Cardinality(SpansOf("sensor")) <= 1
          /\ Cardinality(PutsBy("sensor")) <= 1
          /\ \A i \in SpansOf("sensor") : spans[i].parent = 0
          /\ \A n \in PutsBy("sensor") : log[n].path = "/sensor_data"
          /\ (pc["sensor"] \notin {"off", "done", "panicked"}) => ENABLED SensorStep
          /\ pc["sensor"] \in {"sensor_put", "zenoh_close", "force_flush", "shutdown", "done"}
             => Cardinality(SpansOf("sensor")) = 1
          /\ pc["sensor"] \in {"zenoh_close", "force_flush", "shutdown", "done"}
             => /\ Cardinality(PutsBy("sensor")) = 1
                /\ \A i \in SpansOf("sensor") : spans[i].ends = 1)
    /\ [][pc'["sensor"] # pc["sensor"]
          => \/ pc'["sensor"] = "panicked"
             \/ \E k \in 1..(Len(SensorPath) - 1) :
                  pc["sensor"] = SensorPath[k] /\ pc'["sensor"] = SensorPath[k + 1]]_vars

\* main has returned in the sensor process.
C13_Witness ==
    /\ pc["sensor"] = "done"
    /\ Cardinality(SpansOf("sensor")) = 1
    /\ Cardinality(PutsBy("sensor")) = 1

\* C14: motion never puts anything, and none of its steps changes the bus.
\* Taking a decodable envelope starts exactly one span for it, open and not
\* yet slept for; no envelope has two motion spans; a motion span that is open
\* is the span of the iteration in its sleep, and a motion span that has ended
\* was held open for exactly the sleep_time its envelope carries and ended once.
C14_MotionOnlyTraces ==
    /\ [](/\ PutsBy("motion") = {}
          /\ \A i \in SpansOf("motion") :
               /\ Decodes(spans[i].src)
               /\ spans[i].ends <= 1
               /\ \A j \in SpansOf("motion") : spans[j].src = spans[i].src => j = i
               /\ IsOpen(i) => /\ pc["motion"] = "sleep"
                               /\ cur["motion"].cx = i
                               /\ spans[i].slept = 0
               /\ ~IsOpen(i) => spans[i].slept = Carried(spans[i].src).sleep_time)
    /\ [][/\ (Takes("motion") \/ pc'["motion"] # pc["motion"]) => log' = log
          /\ (Takes("motion") /\ Decodes(Taken("motion")))
             => /\ Len(spans') = Len(spans) + 1
                /\ SubSeq(spans', 1, Len(spans)) = spans
                /\ spans'[Len(spans')].owner = "motion"
                /\ spans'[Len(spans')].src = Taken("motion")
                /\ spans'[Len(spans')].ends = 0
          /\ (Takes("motion") /\ ~Decodes(Taken("motion")))
             => Len(spans') = Len(spans)]_vars

\* motion has ended the span of an envelope that carries a positive sleep_time.
C14_Witness ==
    \E i \in SpansOf("motion") :
        /\ ~IsOpen(i)
        /\ Carried(spans[i].src).sleep_time > 0
        /\ spans[i].slept = Carried(spans[i].src).sleep_time

\* The pairs of distinct changes to /sensor_data that carry the same decodable value.
Duplicates ==
    {d \in (1..Len(log)) \X (1..Len(log)) :
        /\ d[1] # d[2]
        /\ log[d[1]].path = "/sensor_data" /\ log[d[2]].path = "/sensor_data"
        /\ log[d[1]].value = log[d[2]].value
        /\ Decodes(d[1])}

\* C15: computing does not deduplicate. Taking a decodable envelope starts a
\* new span even when a span was started for an equal envelope before; two
\* spans started for equal envelopes have the same parent (and the same trace
\* when the parent is valid); and the envelopes put to /action for equal
\* inbound envelopes are as many as the inbound ones and carry pairwise
\* different span_context values, each the context of its own span.
C15_NoDeduplication ==
    /\ [](\A d \in Duplicates :
            /\ \A i, j \in SpansOf("computing") :
                 (spans[i].src = d[1] /\ spans[j].src = d[2])
                 => /\ i # j
                    /\ spans[i].parent = spans[j].parent
                    /\ IsValid(Recovered(d[1])) => spans[i].trace = spans[j].trace
            /\ \A a, b \in PutsBy("computing") :
                 (log[a].cause = d[1] /\ log[b].cause = d[2])
                 => /\ a # b
                    /\ log[a].path = "/action" /\ log[b].path = "/action"
                    /\ log[a].cx # log[b].cx
                    /\ Carried(a).span_context # Carried(b).span_context)
    /\ [](\A n \in 1..Len(log) :
            Cardinality({a \in PutsBy("computing") : log[a].cause = n}) <= 1)
    /\ [][(Takes("computing") /\ Decodes(Taken("computing")))
          => /\ Len(spans') = Len(spans) + 1
             /\ spans'[Len(spans')].src = Taken("computing")]_vars

\* computing has put an envelope for each of two equal envelopes, both with
\* the same valid context.
C15_Witness ==
    \E d \in Duplicates :
        /\ IsValid(Recovered(d[1]))
        /\ \E a, b \in PutsBy("computing") : log[a].cause = d[1] /\ log[b].cause = d[2]

OpenSpansOf(p) == {i \in SpansOf(p) : IsOpen(i)}

\* C16: a process has at most one open span, and no span is ended twice. A
\* subscriber has an open span exactly while it is in the sleep or the put of
\* an iteration, and that span is the iteration's; so the span is ended when
\* the loop is back at select!. The sleep of an iteration happens while its
\* span is open; computing's put is issued after the sleep with the span still
\* open, and the span ends in the step that completes the put (or the panic
\* of a failed put); motion's span ends in the step that completes the sleep.
C16_OneOpenSpan ==
    /\ [](\A p \in Procs :
            /\ Cardinality(OpenSpansOf(p)) <= 1
            /\ \A i \in SpansOf(p) : spans[i].ends <= 1
            /\ p \in Subscribers =>
                 /\ pc[p] \in {"sleep", "put"} => OpenSpansOf(p) = {cur[p].cx}
                 /\ pc[p] \notin {"sleep", "put"} => OpenSpansOf(p) = {}
                 /\ pc[p] = "sleep" => spans[cur[p].cx].slept = 0
                 /\ pc[p] = "put"
                    => spans[cur[p].cx].slept = Carried(spans[cur[p].cx].src).sleep_time)
    /\ [](\A i \in SpansOf("computing") :
            ~IsOpen(i) => \/ \E n \in PutsBy("computing") : log[n].cx = i
                          \/ pc["computing"] = "panicked")
    /\ [][/\ \A i \in 1..Len(spans) :
               /\ spans'[i].slept # spans[i].slept => IsOpen(i)
               /\ spans'[i].ends # spans[i].ends
                  => \/ pc[spans[i].owner] = "sleep" /\ spans[i].owner = "motion"
                     \/ pc[spans[i].owner] \in {"put", "sensor_put"}
                     \/ pc'[spans[i].owner] = "panicked"
          /\ (Len(log') > Len(log) /\ log'[Len(log')].by = "computing")
             => /\ IsOpen(log'[Len(log')].cx)
                /\ spans'[log'[Len(log')].cx].ends = 1
                /\ pc'["computing"] = "select"]_vars

\* computing is back at select! after an iteration that put its envelope; the
\* iteration's span is ended.
C16_Witness ==
    /\ pc["computing"] = "select"
    /\ \E n \in PutsBy("computing") :
         spans[log[n].cx].ends = 1 /\ spans[log[n].cx].slept > 0

\* Both branches of p's select! are ready: a change is in the stream and the
\* sentinel byte is the next byte of stdin.
BothReady(p) ==
    /\ pc[p] = "select"
    /\ change_stream[p] # <<>>
    /\ stdin[p] # <<>> /\ Head(stdin[p]) = SentinelByte

\* C17: when both a change and the sentinel are ready at select!, the branch
\* that runs is the change branch: the process does not leave select! by
\* reading the sentinel while the change is still in the stream.
C17_MessageWinsTie ==
    [][\A p \in Subscribers :
         (BothReady(p) /\ (pc'[p] # pc[p] \/ stdin'[p] # stdin[p])) => Takes(p)]_vars

\* The sentinel byte is among the bytes of p's stdin not yet read.
SentinelPending(p) == \E k \in 1..Len(stdin[p]) : stdin[p][k] = SentinelByte

NotUtf8(n) == log[n].value.tag \notin {"None", "StringUtf8"}

\* C19: a subscriber that takes a change whose value is present but is not
\* StringUtf8 is back at select! in the same step with its subscription open:
\* it starts and ends no span, puts nothing and keeps no locals of the change.
\* So no span and no put of a subscriber stems from such a change.
C19_SkipsNotUtf8 ==
    /\ [](/\ \A i \in SpansOf("computing") \cup SpansOf("motion") : ~NotUtf8(spans[i].src)
          /\ \A n \in PutsBy("computing") \cup PutsBy("motion") : ~NotUtf8(log[n].cause))
    /\ [][\A p \in Subscribers :
            (Takes(p) /\ NotUtf8(Taken(p)))
            => /\ pc'[p] = "select"
               /\ sub'[p] = "open"
               /\ spans' = spans
               /\ log' = log
               /\ cur' = cur
               /\ input' = input
               /\ events' = events]_vars

\* A subscriber has taken a change that is not UTF-8 and waits at select!.
C19_Witness ==
    \E p \in Subscribers, n \in 1..Len(log) :
        /\ log[n].path = SubPath(p)
        /\ NotUtf8(n)
        /\ pc[p] = "select" /\ sub[p] = "open"
        /\ \A k \in 1..Len(change_stream[p]) : change_stream[p][k] # n

=============================================================================
